---- MODULE Spec2Model ----
(***************************************************************************)
(* Clinic appointment booking: the availability computation                *)
(* (useAvailableSlots) and the create-appointment edge function.           *)
(*                                                                         *)
(* Time.  A Date is a number of seconds since local midnight of day 0.     *)
(* A TIME column value "HH:mm:ss" is the tuple <<h, m, s>>, a slot string  *)
(* "HH:mm" is the tuple <<h, m>>, a date string "yyyy-MM-dd" is the day    *)
(* number.  format and parse convert between them as date-fns does:        *)
(* format drops the day and the seconds, parse puts the time of day on the *)
(* reference day.                                                          *)
(***************************************************************************)
EXTENDS Integers, Sequences, FiniteSets, TLC

\* ------------------------------------------------------------------ bounds

\* Most rows the schedules, appointments and schedule_blocks tables hold together
\* when a slot computation starts.
MaxRows == 3

\* Most rows the three tables hold together when useAvailableSlots is called with
\* arguments the booking page does not pass.
MaxArgRows == 2

\* Number of create-appointment requests in flight or served.
NumRequests == 2

\* Number of create-appointment requests that reach the rate limiter while the clock
\* runs.
MaxCalls == 7

\* Number of auth state change events useAuth receives.
MaxAuthEvents == 3

\* Most candidate slots the loop of useAvailableSlots pushes when it is taken step by
\* step.
MaxSlots == 8

\* Number of patient searches of the booking page awaiting their response at once.
MaxSearches == 2

\* ------------------------------------------------------- date-fns helpers

\* new Date(y, m, d): local midnight of a day.
startOfDay(day) == day * 86400

\* format(d, "yyyy-MM-dd")
formatDate(d) == d \div 86400

\* Date.getDay(): day 0 is a Sunday.
getDay(d) == (d \div 86400) % 7

\* format(d, "HH:mm")
formatHHmm(d) == << (d % 86400) \div 3600, (d % 3600) \div 60 >>

\* parse(s, "HH:mm:ss", ref): the time of day s on the day of ref.
parseHHmmss(s, ref) == startOfDay(formatDate(ref)) + s[1] * 3600 + s[2] * 60 + s[3]

\* parse(s, "HH:mm", ref)
parseHHmm(s, ref) == startOfDay(formatDate(ref)) + s[1] * 3600 + s[2] * 60

\* d = new Date(date); d.setHours(h, m, 0, 0)
setHours(d, h, m) == startOfDay(formatDate(d)) + h * 3600 + m * 60

addMinutes(d, n) == d + n * 60

isBefore(a, b) == a < b

isAfter(a, b) == a > b

\* Minutes since midnight of a slot string "HH:mm" (used by the properties).
MinuteOfDay(slot) == slot[1] * 60 + slot[2]

\* Minutes since midnight of a TIME value "HH:mm:ss" with zero seconds.
TimeMinutes(t) == t[1] * 60 + t[2]

\* ------------------------------------------------------------------ state

VARIABLES
  schedules,        \* table schedules: sequence of rows, in the store's order
  appointments,     \* table appointments: sequence of rows
  schedule_blocks,  \* table schedule_blocks: sequence of rows
  doctorId,         \* useAvailableSlots parameter
  date,             \* useAvailableSlots parameter: a Date (local midnight of the day)
  duration,         \* useAvailableSlots parameter: minutes
  now,              \* the clock when queryFn runs: a Date
  pc,               \* position of queryFn
  qSchedules,       \* rows the schedules query returned
  qAppointments,    \* rows the appointments query returned
  qBlocks,          \* rows the schedule_blocks query returned
  allSlots,         \* candidate slot strings, in generation order
  result,           \* what queryFn returned
  thrown            \* the read whose error queryFn threw, "none" when it threw none

slotVars == << schedules, appointments, schedule_blocks, doctorId, date, duration,
               now, pc, qSchedules, qAppointments, qBlocks, allSlots, result, thrown >>

VARIABLES
  patients,      \* table patients: sequence of rows; a row's id is its index
  rateLimitMap,  \* create-appointment: client IP -> [count, resetAt]
  dateNow,       \* Date.now() of the edge function, in milliseconds
  req            \* create-appointment: the requests, each with its position

bookVars == << patients, rateLimitMap, dateNow, req >>

VARIABLES
  calls          \* create-appointment: the isRateLimited calls made, oldest first

VARIABLES
  authUsers,     \* create-user: the auth users, a sequence of [id, email]
  user_roles,    \* table user_roles: sequence of [user_id, role]
  ureq           \* create-user: the requests, each with its position

userVars == << authUsers, user_roles, ureq >>

VARIABLES
  authState,     \* useAuth: the AuthState held by useState
  authPending,   \* useAuth: the deferred profile/roles fetches and the getSession call
  booking,       \* Booking page: the component's state
  inflight       \* Booking page: the patient searches and the submit awaiting a response

uiVars == << authState, authPending, booking, inflight >>

VARIABLES
  loop           \* useAvailableSlots: the candidate loop taken step by step


\* What neither useAvailableSlots nor the steps of a create-appointment request touch.
otherVars == << calls, userVars, uiVars, loop >>

vars == << slotVars, bookVars, otherVars >>

\* ---------------------------------------------------- useAvailableSlots

\* Mutant of SchedulesQuery: the is_active filter is missing.
SchedulesQueryAnyActive(table, doctor, dayOfWeek) ==
  SelectSeq(table, LAMBDA r : /\ r.doctor_id = doctor
                              /\ r.day_of_week = dayOfWeek)

\* .from("schedules").eq("doctor_id").eq("day_of_week").eq("is_active", true)
SchedulesQuery(table, doctor, dayOfWeek) ==
  SelectSeq(table, LAMBDA r : /\ r.doctor_id = doctor
                              /\ r.day_of_week = dayOfWeek
                              /\ r.is_active = TRUE)

\* Mutant of AppointmentsQuery: the status filter is missing.
AppointmentsQueryAnyStatus(table, doctor, dateStr) ==
  SelectSeq(table, LAMBDA a : /\ a.doctor_id = doctor
                              /\ a.appointment_date = dateStr)

\* .from("appointments").eq("doctor_id").eq("appointment_date").neq("status", "cancelada")
AppointmentsQuery(table, doctor, dateStr) ==
  SelectSeq(table, LAMBDA a : /\ a.doctor_id = doctor
                              /\ a.appointment_date = dateStr
                              /\ a.status # "cancelada")

\* startOfDate and endOfDate: setHours(0,0,0,0) and setHours(23,59,59,999)
startOfDate(d) == startOfDay(formatDate(d))
endOfDate(d) == startOfDay(formatDate(d)) + 86399

\* Mutant of BlocksQuery: only blocks that start on the requested day are read.
BlocksQueryStartingOnDay(table, doctor, d) ==
  SelectSeq(table, LAMBDA b : /\ b.doctor_id = doctor
                              /\ b.start_datetime <= endOfDate(d)
                              /\ b.start_datetime >= startOfDate(d))

\* .from("schedule_blocks").eq("doctor_id").lte("start_datetime", endOfDate)
\*   .gte("end_datetime", startOfDate)
BlocksQuery(table, doctor, d) ==
  SelectSeq(table, LAMBDA b : /\ b.doctor_id = doctor
                              /\ b.start_datetime <= endOfDate(d)
                              /\ b.end_datetime >= startOfDate(d))

\* Mutant of LoopCondition: the requested duration is left out of the test.
LoopConditionWithoutDuration(currentSlot, endTime, dur) ==
  isBefore(currentSlot, endTime)

\* The while condition of the candidate loop.
LoopCondition(currentSlot, endTime, dur) ==
  \/ isBefore(addMinutes(currentSlot, dur), endTime)
  \/ formatHHmm(addMinutes(currentSlot, dur)) = formatHHmm(endTime)

\* Mutant of SlotLoop: the loop steps by the requested duration.
RECURSIVE SlotLoopStepByDuration(_, _, _, _)
SlotLoopStepByDuration(currentSlot, endTime, slotDuration, dur) ==
  IF LoopCondition(currentSlot, endTime, dur)
  THEN << formatHHmm(currentSlot) >>
         \o SlotLoopStepByDuration(addMinutes(currentSlot, dur), endTime, slotDuration, dur)
  ELSE << >>

\* The candidate loop of one schedule row, from currentSlot on.
RECURSIVE SlotLoop(_, _, _, _)
SlotLoop(currentSlot, endTime, slotDuration, dur) ==
  IF LoopCondition(currentSlot, endTime, dur)
  THEN << formatHHmm(currentSlot) >>
         \o SlotLoop(addMinutes(currentSlot, slotDuration), endTime, slotDuration, dur)
  ELSE << >>

\* One iteration of "for (const schedule of schedules)".
ScheduleSlots(schedule, ref, dur) ==
  SlotLoop(parseHHmmss(schedule.start_time, ref), parseHHmmss(schedule.end_time, ref),
           schedule.slot_duration, dur)

\* allSlots after the loop over the schedule rows, in the order the rows came.
RECURSIVE GenerateAllSlots(_, _, _)
GenerateAllSlots(rows, ref, dur) ==
  IF rows = << >> THEN << >>
  ELSE ScheduleSlots(Head(rows), ref, dur) \o GenerateAllSlots(Tail(rows), ref, dur)

\* Mutant of AppointmentOverlap: the intervals are taken as closed.
AppointmentOverlapClosed(slotStart, slotEnd, aptStart, aptEnd) ==
  slotStart <= aptEnd /\ slotEnd >= aptStart

\* The overlap test of a slot against an appointment.
AppointmentOverlap(slotStart, slotEnd, aptStart, aptEnd) ==
  isBefore(slotStart, aptEnd) /\ isAfter(slotEnd, aptStart)

\* The overlap test of a slot against a block.
BlockOverlap(slotDateTime, slotEndDateTime, blockStart, blockEnd) ==
  isBefore(slotDateTime, blockEnd) /\ isAfter(slotEndDateTime, blockStart)

Range(s) == { s[i] : i \in DOMAIN s }

\* Slots marked occupied by the appointment rows.
OccupiedByAppointments(apts, slots, ref, dur) ==
  { slot \in Range(slots) :
      \E i \in DOMAIN apts :
        AppointmentOverlap(parseHHmm(slot, ref),
                           addMinutes(parseHHmm(slot, ref), dur),
                           parseHHmmss(apts[i].start_time, ref),
                           parseHHmmss(apts[i].end_time, ref)) }

\* Slots marked occupied by the block rows.
OccupiedByBlocks(blocks, slots, d, dur) ==
  { slot \in Range(slots) :
      \E i \in DOMAIN blocks :
        BlockOverlap(setHours(d, slot[1], slot[2]),
                     addMinutes(setHours(d, slot[1], slot[2]), dur),
                     blocks[i].start_datetime,
                     blocks[i].end_datetime) }

\* Mutant of NotOnGrid: quarter hours pass.
NotOnQuarterGrid(minutes) == minutes % 15 # 0

\* "Only allow 30-minute interval slots (HH:00 or HH:30)"
NotOnGrid(minutes) == minutes # 0 /\ minutes # 30

\* isToday
IsToday(d, clock) == formatDate(d) = formatDate(clock)

\* Mutant of IsPast: only the hour is compared.
IsPastByHour(slot, d, clock) == slot[1] < (clock % 86400) \div 3600

\* The past-time test of the final filter.
IsPast(slot, d, clock) == isBefore(setHours(d, slot[1], slot[2]), clock)

\* The predicate of allSlots.filter.
KeepSlot(slot, occupied, d, clock) ==
  /\ slot \notin occupied
  /\ ~NotOnGrid(slot[2])
  /\ (IsToday(d, clock) => ~IsPast(slot, d, clock))

\* availableSlots
FilterSlots(slots, occupied, d, clock) ==
  SelectSeq(slots, LAMBDA slot : KeepSlot(slot, occupied, d, clock))

\* The whole computation after the three reads.
ComputeSlots(rows, apts, blocks, d, dur, clock) ==
  LET slots == GenerateAllSlots(rows, clock, dur)
      occupied == OccupiedByAppointments(apts, slots, clock, dur)
                    \cup OccupiedByBlocks(blocks, slots, d, dur)
  IN  FilterSlots(slots, occupied, d, clock)

\* ----------------------------------------------------------- input rows

\* A TIME value stored from an "HH:mm" input.
Time(h, m) == << h, m, 0 >>

\* A timestamp on a day at h:m.
At(day, h, m) == startOfDay(day) + h * 3600 + m * 60

Rule(doc, dow, s, e, step, active) ==
  [ doctor_id |-> doc, day_of_week |-> dow, start_time |-> s, end_time |-> e,
    slot_duration |-> step, is_active |-> active ]

Appt(doc, day, s, e, st) ==
  [ doctor_id |-> doc, appointment_date |-> day, start_time |-> s, end_time |-> e,
    status |-> st ]

Block(doc, s, e) == [ doctor_id |-> doc, start_datetime |-> s, end_datetime |-> e ]

\* The requested day: day 8 is a Monday (day 0 is a Sunday).
RequestedDays == { 8 }

\* Rows the schedules table may hold: start_time < end_time, slot_duration one of
\* the four values the schedules page offers.
ScheduleRows ==
  { Rule("d1", 1, Time(9, 0),  Time(11, 0),  30, TRUE),
    Rule("d1", 1, Time(9, 15), Time(10, 30), 15, TRUE),
    Rule("d1", 1, Time(9, 0),  Time(10, 30), 45, TRUE),
    Rule("d1", 1, Time(10, 0), Time(11, 0),  60, TRUE),
    Rule("d1", 1, Time(23, 0), Time(23, 59), 30, TRUE),
    Rule("d1", 1, Time(9, 0),  Time(11, 0),  30, FALSE),
    Rule("d1", 2, Time(9, 0),  Time(11, 0),  30, TRUE),
    Rule("d2", 1, Time(9, 0),  Time(11, 0),  30, TRUE) }

\* Rows the appointments table may hold: start_time < end_time.
AppointmentRows ==
  { Appt("d1", 8, Time(10, 0), Time(10, 30), st) :
      st \in { "pendiente", "confirmada", "cancelada", "completada" } }
  \cup
  { Appt("d1", 9, Time(10, 0), Time(10, 30), "pendiente"),
    Appt("d2", 8, Time(9, 0),  Time(11, 0), "pendiente") }

\* Rows the schedule_blocks table may hold: start_datetime < end_datetime.
BlockRows ==
  { Block("d1", At(8, 10, 0), At(8, 10, 30)),
    Block("d1", At(7, 0, 0),  At(8, 9, 30)),
    Block("d2", At(8, 0, 0),  At(9, 0, 0)) }

\* Appointment durations the booking page offers.
Durations == { 30, 60 }

\* Moments the computation may run at: the day before, and two moments of the
\* requested day (one of them a slot start to the millisecond).
Moments == { At(7, 12, 0), At(8, 9, 30), At(8, 10, 15) }

\* --------------------------------------------------------------- actions

InitSlots ==
  /\ \E r \in 0..MaxRows : \E a \in 0..(MaxRows - r) : \E b \in 0..(MaxRows - r - a) :
       /\ schedules \in [1..r -> ScheduleRows]
       /\ appointments \in [1..a -> AppointmentRows]
       /\ schedule_blocks \in [1..b -> BlockRows]
  /\ doctorId = "d1"
  /\ date \in { startOfDay(d) : d \in RequestedDays }
  /\ duration \in Durations
  /\ now \in Moments
  /\ pc = "schedules"
  /\ qSchedules = << >>
  /\ qAppointments = << >>
  /\ qBlocks = << >>
  /\ allSlots = << >>
  /\ result = << >>
  /\ thrown = "none"
  /\ loop = << >>
  /\ patients = << >>
  /\ rateLimitMap = << >>
  /\ dateNow = 0
  /\ req = << >>
  /\ calls = << >>
  /\ authUsers = << >>
  /\ user_roles = << >>
  /\ ureq = << >>
  /\ authState = << >>
  /\ authPending = << >>
  /\ booking = << >>
  /\ inflight = << >>

inputVars == << schedules, appointments, schedule_blocks, doctorId, date, duration, now,
               bookVars, otherVars >>

\* doctorId and date are "string | undefined" and "Date | undefined".
NoDoctor == ""

NoDate == -1

\* Mutant of ArgumentsMissing: only doctorId is tested.
OnlyDoctorMissing(doc, d) == doc = NoDoctor

\* "!doctorId || !date"
ArgumentsMissing(doc, d) == doc = NoDoctor \/ d = NoDate

\* "enabled: !!doctorId && !!date" is false: useQuery never calls queryFn and the
\* query stays without data.
Disabled ==
  /\ pc = "schedules"
  /\ ArgumentsMissing(doctorId, date)
  /\ pc' = "idle"
  /\ UNCHANGED << inputVars, qSchedules, qAppointments, qBlocks, allSlots, result, thrown >>

\* queryFn called without doctorId or date: "return []" before any read.
MissingArgument ==
  /\ pc = "schedules"
  /\ ArgumentsMissing(doctorId, date)
  /\ result' = << >>
  /\ pc' = "done"
  /\ UNCHANGED << inputVars, qSchedules, qAppointments, qBlocks, allSlots, thrown >>

\* The schedules read succeeds; no row means the empty list is returned.
FetchSchedules ==
  /\ pc = "schedules"
  /\ ~ArgumentsMissing(doctorId, date)
  /\ qSchedules' = SchedulesQuery(schedules, doctorId, getDay(date))
  /\ pc' = IF Len(qSchedules') = 0 THEN "done" ELSE "appointments"
  /\ result' = << >>
  /\ UNCHANGED << inputVars, qAppointments, qBlocks, allSlots, thrown >>

\* The appointments read succeeds.
FetchAppointments ==
  /\ pc = "appointments"
  /\ qAppointments' = AppointmentsQuery(appointments, doctorId, formatDate(date))
  /\ pc' = "blocks"
  /\ UNCHANGED << inputVars, qSchedules, qBlocks, allSlots, result, thrown >>

\* The schedule_blocks read succeeds and queryFn runs to its return.
FetchBlocks ==
  /\ pc = "blocks"
  /\ qBlocks' = BlocksQuery(schedule_blocks, doctorId, date)
  /\ allSlots' = GenerateAllSlots(qSchedules, now, duration)
  /\ result' = ComputeSlots(qSchedules, qAppointments, qBlocks', date, duration, now)
  /\ pc' = "done"
  /\ UNCHANGED << inputVars, qSchedules, qAppointments, thrown >>

\* Mutant of ReadError: the error of the read is not tested and queryFn goes on with
\* no rows ("!schedules" returns the empty list).
ReadErrorIgnored ==
  /\ pc \in { "schedules", "appointments", "blocks" }
  /\ ~ArgumentsMissing(doctorId, date)
  /\ thrown' = pc
  /\ pc' = IF pc = "appointments" THEN "blocks" ELSE "done"
  /\ allSlots' = IF pc = "blocks" THEN GenerateAllSlots(qSchedules, now, duration)
                                  ELSE allSlots
  /\ result' = IF pc = "blocks"
               THEN ComputeSlots(qSchedules, qAppointments, << >>, date, duration, now)
               ELSE result
  /\ UNCHANGED << inputVars, qSchedules, qAppointments, qBlocks >>

\* A read fails: "if (error) throw error".
ReadError ==
  /\ pc \in { "schedules", "appointments", "blocks" }
  /\ ~ArgumentsMissing(doctorId, date)
  /\ thrown' = pc
  /\ pc' = "error"
  /\ UNCHANGED << inputVars, qSchedules, qAppointments, qBlocks, allSlots, result >>

NextSlots == FetchSchedules \/ FetchAppointments \/ FetchBlocks \/ ReadError

\* useAvailableSlots called with a doctor and a date.
Spec == InitSlots /\ [][NextSlots]_vars

\* Durations the hook accepts besides the ones the booking page offers: "duration:
\* number" is not tested before the candidate loop.
ArgDurations == { -30, 0, 30 }

InitArgs ==
  /\ \E r \in 0..MaxArgRows : \E a \in 0..(MaxArgRows - r) : \E b \in 0..(MaxArgRows - r - a) :
       /\ schedules \in [1..r -> ScheduleRows]
       /\ appointments \in [1..a -> AppointmentRows]
       /\ schedule_blocks \in [1..b -> BlockRows]
  /\ doctorId \in { "d1", NoDoctor }
  /\ date \in { startOfDay(d) : d \in RequestedDays } \cup { NoDate }
  /\ duration \in ArgDurations
  /\ now \in Moments
  /\ pc = "schedules"
  /\ qSchedules = << >>
  /\ qAppointments = << >>
  /\ qBlocks = << >>
  /\ allSlots = << >>
  /\ result = << >>
  /\ thrown = "none"
  /\ loop = << >>
  /\ patients = << >>
  /\ rateLimitMap = << >>
  /\ dateNow = 0
  /\ req = << >>
  /\ calls = << >>
  /\ authUsers = << >>
  /\ user_roles = << >>
  /\ ureq = << >>
  /\ authState = << >>
  /\ authPending = << >>
  /\ booking = << >>
  /\ inflight = << >>

NextArgs ==
  \/ Disabled
  \/ MissingArgument
  \/ FetchSchedules
  \/ FetchAppointments
  \/ FetchBlocks
  \/ ReadError

\* useAvailableSlots called with any arguments its parameter types admit.
SpecArgs == InitArgs /\ [][NextArgs]_vars

\* ------------------------------------------------- terms of the properties
\* Written from the tables and in plain minute and second arithmetic, not with the
\* operators of the computation.

Done == pc = "done"

\* The appointment rows of the requested doctor and day that are not cancelled.
ActiveAppointments ==
  { appointments[i] : i \in { j \in DOMAIN appointments :
      /\ appointments[j].doctor_id = doctorId
      /\ appointments[j].appointment_date = date \div 86400
      /\ appointments[j].status # "cancelada" } }

\* The active schedule rows of the requested doctor and weekday.
ActiveRules ==
  { schedules[i] : i \in { j \in DOMAIN schedules :
      /\ schedules[j].doctor_id = doctorId
      /\ schedules[j].day_of_week = (date \div 86400) % 7
      /\ schedules[j].is_active } }

\* The block rows of the requested doctor.
DoctorBlocks ==
  { schedule_blocks[i] : i \in { j \in DOMAIN schedule_blocks :
      schedule_blocks[j].doctor_id = doctorId } }

\* [s, s + duration) and [a.start, a.end) overlap, in minutes of the day.
OverlapsAppointment(s, a) ==
  /\ MinuteOfDay(s) < TimeMinutes(a.end_time)
  /\ MinuteOfDay(s) + duration > TimeMinutes(a.start_time)

\* [date + s, date + s + duration) and the block overlap, in seconds.
OverlapsBlock(s, b) ==
  /\ b.start_datetime < date + (MinuteOfDay(s) + duration) * 60
  /\ b.end_datetime > date + MinuteOfDay(s) * 60

Occupied(s) == \E a \in ActiveAppointments : OverlapsAppointment(s, a)

Blocked(s) == \E b \in DoctorBlocks : OverlapsBlock(s, b)

OnGrid(s) == s[2] \in { 0, 30 }

Today == date \div 86400 = now \div 86400

\* The slot starts strictly before the current moment.
StartsBeforeNow(s) == date + MinuteOfDay(s) * 60 < now

Candidates == Range(allSlots)

Returned == Range(result)

\* --------------------------------------------------------------- claims

\* C2: a candidate is removed on account of appointments exactly when a
\* non-cancelled appointment of the doctor and date overlaps it half-open: every
\* overlapped candidate is absent from the result, and a candidate no appointment
\* overlaps (one ending exactly at appt.start or starting exactly at appt.end
\* included) is returned unless a block, the grid or the past-time filter removes it.
C2_AppointmentOverlapExact ==
  Done =>
    \A s \in Candidates :
      /\ Occupied(s) => s \notin Returned
      /\ (~Occupied(s) /\ ~Blocked(s) /\ OnGrid(s) /\ ~(Today /\ StartsBeforeNow(s)))
            => s \in Returned

\* C2 witness: with duration 60 an appointment removes a candidate that starts
\* before it, and a candidate ending exactly at its start is returned.
C2_Witness ==
  /\ Done
  /\ duration = 60
  /\ \E a \in ActiveAppointments :
       /\ \E s \in Candidates :
            /\ MinuteOfDay(s) < TimeMinutes(a.start_time)
            /\ OverlapsAppointment(s, a)
            /\ s \notin Returned
       /\ \E s \in Returned : MinuteOfDay(s) + duration = TimeMinutes(a.start_time)

\* C3: no returned start time overlaps a blocked interval of the doctor, whatever
\* appointments exist.
C3_NoReturnedSlotInBlock ==
  Done => \A s \in Returned : ~Blocked(s)

\* C3 witness: a block alone removes a candidate, while an appointment exists.
C3_Witness ==
  /\ Done
  /\ ActiveAppointments # { }
  /\ Returned # { }
  /\ \E s \in Candidates :
       /\ Blocked(s) /\ ~Occupied(s) /\ OnGrid(s) /\ ~(Today /\ StartsBeforeNow(s))
       /\ s \notin Returned

\* C4: every returned start time lies in the window of an active rule of the doctor
\* and weekday: r.start_time <= s and s + duration <= r.end_time.
C4_ReturnedWithinRuleWindow ==
  Done =>
    \A s \in Returned :
      \E r \in ActiveRules :
        /\ TimeMinutes(r.start_time) <= MinuteOfDay(s)
        /\ MinuteOfDay(s) + duration <= TimeMinutes(r.end_time)

\* C4 witness: a returned slot ends exactly at the end of the only rule that holds it.
C4_Witness ==
  /\ Done
  /\ \E s \in Returned :
       /\ \E r \in ActiveRules : MinuteOfDay(s) + duration = TimeMinutes(r.end_time)
       /\ \A r \in ActiveRules : MinuteOfDay(s) + duration >= TimeMinutes(r.end_time)

\* C5 (as claimed): the returned list is in ascending order of start time.
C5_ResultAscending ==
  Done =>
    \A i, j \in DOMAIN result :
      i < j => MinuteOfDay(result[i]) <= MinuteOfDay(result[j])

\* C6 (as claimed): the returned list never holds the same start time twice.
C6_ResultNoDuplicates ==
  Done =>
    \A i, j \in DOMAIN result : i # j => result[i] # result[j]

\* The start times start + k * step with start + k * step + duration <= end.
RuleGrid(r) ==
  { m \in { TimeMinutes(r.start_time) + k * r.slot_duration : k \in 0..96 } :
      m + duration <= TimeMinutes(r.end_time) }

\* C7: with a single active rule the candidates are exactly the start times
\* r.start + k * r.slot_duration with r.start + k * r.slot_duration + duration <= r.end,
\* each generated once and in ascending order; with no appointment, block or
\* past-time filtering, the candidates on the half-hour grid are what is returned.
C7_SingleRuleCandidates ==
  (Done /\ Len(qSchedules) = 1) =>
    /\ \A r \in ActiveRules :
         /\ { MinuteOfDay(s) : s \in Candidates } = RuleGrid(r)
         /\ Len(allSlots) = Cardinality(RuleGrid(r))
    /\ \A i, j \in DOMAIN allSlots :
         i < j => MinuteOfDay(allSlots[i]) < MinuteOfDay(allSlots[j])
    /\ (ActiveAppointments = { } /\ DoctorBlocks = { } /\ ~Today)
         => Returned = { s \in Candidates : OnGrid(s) }

\* C7 witness: a rule of step 30 and a duration of 60 give a candidate that starts
\* on a half hour, and every candidate is returned.
C7_Witness ==
  /\ Done
  /\ Len(qSchedules) = 1
  /\ duration = 60
  /\ qSchedules[1].slot_duration = 30
  /\ ActiveAppointments = { } /\ DoctorBlocks = { } /\ ~Today
  /\ \E s \in Returned : s[2] = 30
  /\ Len(result) = Len(allSlots)
  /\ Len(result) >= 3

\* C8: every returned start time has minute 00 or 30.
C8_ResultOnHalfHourGrid ==
  Done => \A s \in Returned : s[2] \in { 0, 30 }

\* C8 witness: a candidate at :15 or :45 that nothing else removes is not returned.
C8_Witness ==
  /\ Done
  /\ Returned # { }
  /\ \E s \in Candidates :
       /\ s[2] \in { 15, 45 }
       /\ ~Occupied(s) /\ ~Blocked(s) /\ ~(Today /\ StartsBeforeNow(s))
       /\ s \notin Returned

\* C9 (as claimed): when the date is today, no start time at or before the current
\* moment is returned.
C9_NoSlotAtOrBeforeNow ==
  (Done /\ Today) => \A s \in Returned : ~(date + MinuteOfDay(s) * 60 <= now)

\* C9 (amended): when the date is today, no start time strictly before the current
\* moment is returned.
C9_NoSlotBeforeNow ==
  (Done /\ Today) => \A s \in Returned : ~StartsBeforeNow(s)

\* C9 witness: today, a free candidate on the grid that started before now is not
\* returned, and a later one is.
C9_Witness ==
  /\ Done
  /\ Today
  /\ \E s \in Candidates :
       /\ StartsBeforeNow(s) /\ ~Occupied(s) /\ ~Blocked(s) /\ OnGrid(s)
       /\ s \notin Returned
  /\ \E s \in Returned : ~StartsBeforeNow(s)

\* The table without its row i.
WithoutRow(table, i) == [ k \in 1..(Len(table) - 1) |-> IF k < i THEN table[k] ELSE table[k + 1] ]

\* What the computation returns from the given appointments table.
ResultFrom(table) ==
  LET rows == SchedulesQuery(schedules, doctorId, getDay(date))
  IN  IF Len(rows) = 0 THEN << >>
      ELSE ComputeSlots(rows,
                        AppointmentsQuery(table, doctorId, formatDate(date)),
                        BlocksQuery(schedule_blocks, doctorId, date),
                        date, duration, now)

\* C10: a cancelled appointment never removes a slot (the result equals the result
\* with that appointment absent), while an appointment of the doctor and date with
\* status pendiente, confirmada or completada removes every slot it overlaps.
C10_CancelledNeverOccupies ==
  Done =>
    \A i \in DOMAIN appointments :
      /\ appointments[i].status = "cancelada"
           => result = ResultFrom(WithoutRow(appointments, i))
      /\ ( /\ appointments[i].status \in { "pendiente", "confirmada", "completada" }
           /\ appointments[i].doctor_id = doctorId
           /\ appointments[i].appointment_date = date \div 86400 )
           => \A s \in Candidates :
                OverlapsAppointment(s, appointments[i]) => s \notin Returned

\* C10 witness: a cancelled appointment of the doctor and date overlaps a returned
\* slot.
C10_Witness ==
  /\ Done
  /\ \E i \in DOMAIN appointments :
       /\ appointments[i].status = "cancelada"
       /\ appointments[i].doctor_id = doctorId
       /\ appointments[i].appointment_date = date \div 86400
       /\ \E s \in Returned : OverlapsAppointment(s, appointments[i])

\* Moments a recomputation may run at: those of Moments and the noon of the day
\* after the requested day.
LaterMoments == Moments \cup { At(9, 12, 0) }

\* What the computation returns from the same tables and arguments at another moment.
ResultAt(clock) ==
  LET rows == SchedulesQuery(schedules, doctorId, getDay(date))
  IN  IF Len(rows) = 0 THEN << >>
      ELSE ComputeSlots(rows,
                        AppointmentsQuery(appointments, doctorId, formatDate(date)),
                        BlocksQuery(schedule_blocks, doctorId, date),
                        date, duration, clock)

\* a is b with some elements left out.
RECURSIVE IsSubList(_, _)
IsSubList(a, b) ==
  IF a = << >> THEN TRUE
  ELSE IF b = << >> THEN FALSE
  ELSE IF Head(a) = Head(b) THEN IsSubList(Tail(a), Tail(b))
  ELSE IsSubList(a, Tail(b))

\* C11 (as claimed): with the tables unchanged, the computation for the same doctor,
\* date and duration at any later moment, on whatever civil day, returns a sub-list
\* of what the earlier computation returned.
C11_LaterResultIsSubList ==
  Done => \A t \in LaterMoments : t > now => IsSubList(ResultAt(t), result)

\* C13: when no active rule of the doctor exists for the weekday of the date (no
\* rule, rules of other weekdays or doctors, inactive rules), the computation returns
\* the empty list without reading appointments or blocks, and the only error it can
\* end in is that of a failed schedules read.
C13_NoActiveRuleGivesEmptyList ==
  ActiveRules = { } =>
    /\ thrown \in { "none", "schedules" }
    /\ thrown = "none" => pc \in { "schedules", "done" }
    /\ Done => result = << >>
    /\ qAppointments = << >> /\ qBlocks = << >> /\ allSlots = << >>

\* C13 witness: the empty list is returned while the doctor has an inactive rule for
\* the weekday, an appointment on the date and a block.
C13_Witness ==
  /\ Done
  /\ ActiveRules = { }
  /\ result = << >>
  /\ \E i \in DOMAIN schedules :
       /\ schedules[i].doctor_id = doctorId
       /\ schedules[i].day_of_week = (date \div 86400) % 7
       /\ ~schedules[i].is_active
  /\ ActiveAppointments # { }
  /\ DoctorBlocks # { }

\* C14: once a read has failed, whichever of the three, the computation has ended in
\* the error outcome, and no slot has been generated or returned.
C14_FailedReadEndsInError ==
  thrown # "none" => (pc = "error" /\ result = << >> /\ allSlots = << >>)

\* C14 witness: the blocks read fails after the schedules and appointments reads
\* returned rows.
C14_Witness ==
  /\ thrown = "blocks"
  /\ pc = "error"
  /\ Len(qSchedules) > 0
  /\ Len(qAppointments) > 0

\* doctorId or date is missing.
Missing == doctorId = NoDoctor \/ date = NoDate

\* C15 (as claimed): when doctorId or date is missing the computation ends in an
\* error outcome and yields no list.
C15_MissingArgumentIsError ==
  (Missing /\ pc # "schedules") => pc = "error"

\* C15 (amended): when doctorId or date is missing no error is signalled and no
\* table is read: the query is left without data or, when queryFn is called, it
\* returns the empty list.
C15_MissingArgumentNoReadNoError ==
  Missing =>
    /\ pc \in { "schedules", "idle", "done" }
    /\ thrown = "none"
    /\ result = << >>
    /\ qSchedules = << >> /\ qAppointments = << >> /\ qBlocks = << >> /\ allSlots = << >>

\* C15 witness: queryFn returned the empty list for a doctor who has an active rule,
\* because the date is missing.
C15_Witness ==
  /\ date = NoDate
  /\ doctorId = "d1"
  /\ pc = "done"
  /\ result = << >>
  /\ \E i \in DOMAIN schedules : schedules[i].doctor_id = doctorId /\ schedules[i].is_active

\* C16 (as claimed): with a duration of zero or less the computation does not go
\* through the candidate loop and return slots: it ends in an error instead.
C16_NonPositiveDurationIsError ==
  (duration <= 0 /\ ~Missing /\ ActiveRules # { } /\ pc \in { "done", "error" })
    => (pc = "error" /\ allSlots = << >>)

\* ------------------------------------------------ create-appointment
\* The edge function.  A request is served in steps, one per await; the steps of
\* different requests interleave.

RATE_LIMIT == 5

RATE_WINDOW == 60 * 60 * 1000

IPs == { "ip1", "ip2" }

\* No entry of rateLimitMap for an IP.
NoEntry == [ count |-> 0, resetAt |-> 0 ]

\* "!entry || now > entry.resetAt"
WindowOver(entry, t) == entry.count = 0 \/ t > entry.resetAt

\* What isRateLimited(ip) returns at time t.
isRateLimited(map, ip, t) ==
  ~WindowOver(map[ip], t) /\ map[ip].count >= RATE_LIMIT

\* Mutant of rateLimitMapAfter: the call leaves the map as it was.
rateLimitMapUncounted(map, ip, t) == map

\* rateLimitMap after isRateLimited(ip) at time t.
rateLimitMapAfter(map, ip, t) ==
  IF WindowOver(map[ip], t)
  THEN [ map EXCEPT ![ip] = [ count |-> 1, resetAt |-> t + RATE_WINDOW ] ]
  ELSE IF map[ip].count >= RATE_LIMIT
       THEN map
       ELSE [ map EXCEPT ![ip] = [ count |-> map[ip].count + 1, resetAt |-> map[ip].resetAt ] ]

\* A request body.  fieldsValid stands for the pattern and length tests of
\* validateRequest on patient_name, patient_email, patient_phone, reason, notes,
\* appointment_date, start_time, end_time and type.  status is a field the JSON may
\* carry beyond those of BookingRequest ("" when it carries none).
Body(doc, day, s, e, dur, email, phone, valid) ==
  [ doctor_id |-> doc, appointment_date |-> day, start_time |-> s, end_time |-> e,
    duration |-> dur, patient_email |-> email, patient_phone |-> phone,
    fieldsValid |-> valid, status |-> "" ]

NoBody == Body("", 0, << 0, 0 >>, << 0, 0 >>, 0, "", "", FALSE)

\* validateRequest(data) returns an error message.
validationError(data) ==
  \/ data.doctor_id = ""
  \/ ~data.fieldsValid
  \/ data.duration < 15
  \/ data.duration > 180

\* A TIME column value from an "HH:mm" string.
toTime(hm) == << hm[1], hm[2], 0 >>

\* The rows of the duplicate check: same doctor, date and start time, not cancelled.
DuplicateRows(table, data) ==
  SelectSeq(table, LAMBDA a : /\ a.doctor_id = data.doctor_id
                              /\ a.appointment_date = data.appointment_date
                              /\ a.start_time = toTime(data.start_time)
                              /\ a.status # "cancelada")

\* .maybeSingle() yields row data only when exactly one row matches.
maybeSingleFound(rows) == Len(rows) = 1

\* existingAppointment is set.
existingAppointment(table, data) == maybeSingleFound(DuplicateRows(table, data))

\* Ids of the patients rows with the given email / phone.
PatientsByEmail(table, email) == SelectSeq(table, LAMBDA q : q.email = email)
PatientsByPhone(table, phone) == SelectSeq(table, LAMBDA q : q.phone = phone)

\* patients.email is UNIQUE: the insert fails when the email is taken.
patientError(table, email) == Len(PatientsByEmail(table, email)) > 0

\* CONSTRAINT valid_appointment_time CHECK (start_time < end_time)
appointmentError(data) == ~(MinuteOfDay(data.start_time) < MinuteOfDay(data.end_time))

\* Mutant of NewAppointment: the fields of the body are copied into the row, a
\* status among them.
NewAppointmentFromBody(data, patientId) ==
  [ doctor_id |-> data.doctor_id, appointment_date |-> data.appointment_date,
    start_time |-> toTime(data.start_time), end_time |-> toTime(data.end_time),
    status |-> IF data.status = "" THEN "pendiente" ELSE data.status,
    patient_id |-> patientId ]

\* The row the function inserts.
NewAppointment(data, patientId) ==
  [ doctor_id |-> data.doctor_id, appointment_date |-> data.appointment_date,
    start_time |-> toTime(data.start_time), end_time |-> toTime(data.end_time),
    status |-> "pendiente", patient_id |-> patientId ]

\* Request bodies: two patients asking for the same slot, a longer appointment that
\* starts earlier and overlaps it, a body that fails validation, a body whose
\* end_time is not after its start_time, and a body for another slot that carries a
\* status.
Bodies ==
  { [ Body("d1", 8, << 11, 0 >>, << 11, 30 >>, 30, "b@x", "222", TRUE)
        EXCEPT !.status = "confirmada" ],
    Body("d1", 8, << 10, 0 >>, << 10, 30 >>, 30, "a@x", "111", TRUE),
    Body("d1", 8, << 10, 0 >>, << 10, 30 >>, 30, "b@x", "222", TRUE),
    Body("d1", 8, << 9, 30 >>, << 10, 30 >>, 60, "a@x", "111", TRUE),
    Body("d1", 8, << 10, 0 >>, << 10, 30 >>, 30, "a@x", "111", FALSE),
    Body("d1", 8, << 10, 0 >>, << 10, 0 >>,  30, "b@x", "222", TRUE) }

Requests == 1..NumRequests

NewRequest == [ pc |-> "new", method |-> "", ip |-> "", body |-> NoBody,
                patientId |-> 0, status |-> 0 ]

\* rateLimitMap when the requests arrive: empty, or holding what earlier requests of
\* ip1 left (one short of the limit, at the limit, at the limit in a window that is
\* over).
InitialRateMaps ==
  { [ ip \in IPs |-> NoEntry ] }
  \cup { [ ip \in IPs |-> IF ip = "ip1" THEN e ELSE NoEntry ] :
           e \in { [ count |-> 4, resetAt |-> 2 * RATE_WINDOW ],
                   [ count |-> 5, resetAt |-> 2 * RATE_WINDOW ],
                   [ count |-> 5, resetAt |-> RATE_WINDOW - 1 ] } }

InitBooking ==
  /\ schedules = << >>
  /\ appointments = << >>
  /\ schedule_blocks = << >>
  /\ doctorId = ""
  /\ date = 0
  /\ duration = 0
  /\ now = 0
  /\ pc = "idle"
  /\ qSchedules = << >>
  /\ qAppointments = << >>
  /\ qBlocks = << >>
  /\ allSlots = << >>
  /\ result = << >>
  /\ patients = << >>
  /\ thrown = "none"
  /\ loop = << >>
  /\ rateLimitMap \in InitialRateMaps
  /\ dateNow = RATE_WINDOW
  /\ req = [ r \in Requests |-> NewRequest ]
  /\ calls = << >>
  /\ authUsers = << >>
  /\ user_roles = << >>
  /\ ureq = << >>
  /\ authState = << >>
  /\ authPending = << >>
  /\ booking = << >>
  /\ inflight = << >>

slotState == << schedules, schedule_blocks, doctorId, date, duration, now, pc,
                qSchedules, qAppointments, qBlocks, allSlots, result, thrown, otherVars >>

\* The response ends the request.
Respond(r, code) == req' = [ req EXCEPT ![r].pc = "done", ![r].status = code ]

\* A request arrives (requests are numbered in their order of arrival): the CORS
\* preflight is answered at once, any other request passes isRateLimited and, when
\* not limited, goes on to "await req.json()".
Receive(r) ==
  /\ req[r].pc = "new"
  /\ IF r = 1 THEN TRUE ELSE req[r - 1].pc # "new"
  /\ \E method \in { "OPTIONS", "POST" }, ip \in IPs, data \in Bodies :
       IF method = "OPTIONS"
       THEN /\ req' = [ req EXCEPT ![r] = [ NewRequest EXCEPT !.pc = "done", !.method = method,
                                                              !.status = 200 ] ]
            /\ UNCHANGED rateLimitMap
       ELSE /\ rateLimitMap' = rateLimitMapAfter(rateLimitMap, ip, dateNow)
            /\ req' = [ req EXCEPT ![r] =
                          IF isRateLimited(rateLimitMap, ip, dateNow)
                          THEN [ NewRequest EXCEPT !.pc = "done", !.method = method, !.ip = ip,
                                                  !.status = 429 ]
                          ELSE [ NewRequest EXCEPT !.pc = "json", !.method = method, !.ip = ip,
                                                  !.body = data ] ]
  /\ UNCHANGED << slotState, appointments, patients, dateNow >>

\* The body is parsed and validated.
Validate(r) ==
  /\ req[r].pc = "json"
  /\ IF validationError(req[r].body)
     THEN Respond(r, 400)
     ELSE req' = [ req EXCEPT ![r].pc = "check" ]
  /\ UNCHANGED << slotState, appointments, patients, rateLimitMap, dateNow >>

\* The duplicate check returns.
CheckDuplicate(r) ==
  /\ req[r].pc = "check"
  /\ IF existingAppointment(appointments, req[r].body)
     THEN Respond(r, 409)
     ELSE req' = [ req EXCEPT ![r].pc = "patientByEmail" ]
  /\ UNCHANGED << slotState, appointments, patients, rateLimitMap, dateNow >>

\* The patient lookup by email returns.
FindPatientByEmail(r) ==
  /\ req[r].pc = "patientByEmail"
  /\ LET found == PatientsByEmail(patients, req[r].body.patient_email)
     IN  req' = IF maybeSingleFound(found)
                THEN [ req EXCEPT ![r].pc = "insertAppointment", ![r].patientId = found[1].id ]
                ELSE [ req EXCEPT ![r].pc = "patientByPhone" ]
  /\ UNCHANGED << slotState, appointments, patients, rateLimitMap, dateNow >>

\* The patient lookup by phone returns.
FindPatientByPhone(r) ==
  /\ req[r].pc = "patientByPhone"
  /\ LET found == PatientsByPhone(patients, req[r].body.patient_phone)
     IN  req' = IF maybeSingleFound(found)
                THEN [ req EXCEPT ![r].pc = "insertAppointment", ![r].patientId = found[1].id ]
                ELSE [ req EXCEPT ![r].pc = "insertPatient" ]
  /\ UNCHANGED << slotState, appointments, patients, rateLimitMap, dateNow >>

\* The patient insert returns.
InsertPatient(r) ==
  /\ req[r].pc = "insertPatient"
  /\ IF patientError(patients, req[r].body.patient_email)
     THEN /\ Respond(r, 500)
          /\ UNCHANGED patients
     ELSE /\ patients' = Append(patients, [ id |-> Len(patients) + 1,
                                             email |-> req[r].body.patient_email,
                                             phone |-> req[r].body.patient_phone ])
          /\ req' = [ req EXCEPT ![r].pc = "insertAppointment",
                                 ![r].patientId = Len(patients) + 1 ]
  /\ UNCHANGED << slotState, appointments, rateLimitMap, dateNow >>

\* The appointment insert returns.
InsertAppointment(r) ==
  /\ req[r].pc = "insertAppointment"
  /\ IF appointmentError(req[r].body)
     THEN /\ Respond(r, 500)
          /\ UNCHANGED appointments
     ELSE /\ appointments' = Append(appointments, NewAppointment(req[r].body, req[r].patientId))
          /\ Respond(r, 201)
  /\ UNCHANGED << slotState, patients, rateLimitMap, dateNow >>

NextBooking ==
  \E r \in Requests :
    \/ Receive(r)
    \/ Validate(r)
    \/ CheckDuplicate(r)
    \/ FindPatientByEmail(r)
    \/ FindPatientByPhone(r)
    \/ InsertPatient(r)
    \/ InsertAppointment(r)

SpecBooking == InitBooking /\ [][NextBooking]_vars

\* The non-cancelled appointment rows of a doctor, date and start time.
Bookings(doc, day, start) ==
  { i \in DOMAIN appointments :
      /\ appointments[i].doctor_id = doc
      /\ appointments[i].appointment_date = day
      /\ appointments[i].start_time = << start[1], start[2], 0 >>
      /\ appointments[i].status # "cancelada" }

\* Request r passed rate limiting and validation.
Admitted(r) == req[r].method = "POST" /\ req[r].pc = "done" /\ req[r].status \notin { 429, 400 }

SameSlot(r1, r2) ==
  /\ req[r1].body.doctor_id = req[r2].body.doctor_id
  /\ req[r1].body.appointment_date = req[r2].body.appointment_date
  /\ req[r1].body.start_time = req[r2].body.start_time

\* C1 (as claimed): of two create-appointment requests that pass rate limiting and
\* validation and name the same doctor, date and start time, under any
\* interleaving, at most one inserts an appointment row for that slot and the
\* other is answered 409: the table never holds two non-cancelled rows of the slot,
\* and when one of the two is answered 201 the other is answered 409.
C1_AtMostOneBookingPerSlot ==
  \A r1, r2 \in Requests :
    (r1 # r2 /\ Admitted(r1) /\ Admitted(r2) /\ SameSlot(r1, r2)) =>
      /\ Cardinality(Bookings(req[r1].body.doctor_id, req[r1].body.appointment_date,
                              req[r1].body.start_time)) <= 1
      /\ (req[r1].status = 201 /\ ~appointmentError(req[r2].body)) => req[r2].status = 409

\* The requests answered 201.
Created == { r \in Requests : req[r].status = 201 }

\* Row i carries the doctor, date and start time of request r.
RowOf(i, r) ==
  /\ appointments[i].doctor_id = req[r].body.doctor_id
  /\ appointments[i].appointment_date = req[r].body.appointment_date
  /\ appointments[i].start_time = << req[r].body.start_time[1], req[r].body.start_time[2], 0 >>

\* C17: every row the function inserted has status pendiente and carries the
\* doctor_id, appointment_date and start_time of a request answered 201, each
\* request answered 201 has its row, and there are as many rows as such requests.
C17_InsertedRowsArePending ==
  /\ \A i \in DOMAIN appointments :
       /\ appointments[i].status = "pendiente"
       /\ \E r \in Created : RowOf(i, r)
  /\ \A r \in Created : \E i \in DOMAIN appointments : RowOf(i, r)
  /\ Len(appointments) = Cardinality(Created)

\* C17 witness: a request whose body carries status confirmada is answered 201 and
\* its row is pendiente.
C17_Witness ==
  \E r \in Created :
    /\ req[r].body.status = "confirmada"
    /\ \E i \in DOMAIN appointments : RowOf(i, r) /\ appointments[i].status = "pendiente"

\* ------------------------------- create-appointment on a table with rows
\* The appointments table is written by earlier requests and carries no uniqueness
\* constraint on (doctor_id, appointment_date, start_time): it may hold one row of a
\* slot, a cancelled one, or two non-cancelled ones (two requests that both passed
\* the duplicate check before either inserted).

ExistingPatients ==
  << [ id |-> 1, email |-> "c@x", phone |-> "333" ],
     [ id |-> 2, email |-> "d@x", phone |-> "444" ] >>

\* A row of the slot d1, day 8, 10:00 inserted earlier, in its present status.
ExistingRow(patientId, st) ==
  [ NewAppointment(Body("d1", 8, << 10, 0 >>, << 10, 30 >>, 30, "", "", TRUE), patientId)
      EXCEPT !.status = st ]

ExistingTables ==
  { << >>,
    << ExistingRow(1, "pendiente") >>,
    << ExistingRow(1, "cancelada") >>,
    << ExistingRow(1, "confirmada"), ExistingRow(2, "pendiente") >> }

InitExisting ==
  /\ schedules = << >>
  /\ appointments \in ExistingTables
  /\ schedule_blocks = << >>
  /\ doctorId = ""
  /\ date = 0
  /\ duration = 0
  /\ now = 0
  /\ pc = "idle"
  /\ qSchedules = << >>
  /\ qAppointments = << >>
  /\ qBlocks = << >>
  /\ allSlots = << >>
  /\ result = << >>
  /\ thrown = "none"
  /\ loop = << >>
  /\ patients = ExistingPatients
  /\ rateLimitMap \in InitialRateMaps
  /\ dateNow = RATE_WINDOW
  /\ req = [ r \in Requests |-> NewRequest ]
  /\ calls = << >>
  /\ authUsers = << >>
  /\ user_roles = << >>
  /\ ureq = << >>
  /\ authState = << >>
  /\ authPending = << >>
  /\ booking = << >>
  /\ inflight = << >>

SpecExisting == InitExisting /\ [][NextBooking]_vars

\* The duplicate check of request r returns in this step.
CheckReturns(r) == req[r].pc = "check" /\ req'[r].pc # "check"

\* C18 (as claimed): when the duplicate check of a request returns while one or more
\* non-cancelled rows exist for its doctor, date and start time, however many, the
\* request is answered 409 and goes no further, so it inserts nothing.
C18_ExistingBookingGives409 ==
  [][ \A r \in Requests :
        ( /\ CheckReturns(r)
          /\ Bookings(req[r].body.doctor_id, req[r].body.appointment_date,
                      req[r].body.start_time) # { } )
          => (req'[r].pc = "done" /\ req'[r].status = 409) ]_vars

\* ------------------------------------ create-appointment: rate limiting
\* The requests of a run of the function, one after another, as the clock advances.
\* Each passes through isRateLimited on arrival, before the first await.

\* Values of Date.now(), in milliseconds: a start, the last millisecond of the hour
\* that starts there, the millisecond after it, and an hour later.
ClockValues == { 1000, 1000 + RATE_WINDOW, 1001 + RATE_WINDOW, 1001 + 2 * RATE_WINDOW }

InitRate ==
  /\ schedules = << >>
  /\ appointments = << >>
  /\ schedule_blocks = << >>
  /\ doctorId = ""
  /\ date = 0
  /\ duration = 0
  /\ now = 0
  /\ pc = "idle"
  /\ qSchedules = << >>
  /\ qAppointments = << >>
  /\ qBlocks = << >>
  /\ allSlots = << >>
  /\ result = << >>
  /\ thrown = "none"
  /\ loop = << >>
  /\ patients = << >>
  /\ rateLimitMap = [ ip \in IPs |-> NoEntry ]
  /\ dateNow = 1000
  /\ req = << >>
  /\ calls = << >>
  /\ authUsers = << >>
  /\ user_roles = << >>
  /\ ureq = << >>
  /\ authState = << >>
  /\ authPending = << >>
  /\ booking = << >>
  /\ inflight = << >>

\* A POST of a client IP arrives: isRateLimited(clientIP) updates rateLimitMap, and
\* the request is answered 429 when it returns true.
RateLimitStep(ip) ==
  /\ Len(calls) < MaxCalls
  /\ rateLimitMap' = rateLimitMapAfter(rateLimitMap, ip, dateNow)
  /\ calls' = Append(calls, [ ip |-> ip, at |-> dateNow,
                              status |-> IF isRateLimited(rateLimitMap, ip, dateNow)
                                         THEN 429 ELSE 0 ])
  /\ UNCHANGED << slotVars, patients, dateNow, req, userVars, uiVars, loop >>

\* Time passes between two requests.
Tick ==
  /\ \E t \in ClockValues : t > dateNow /\ dateNow' = t
  /\ UNCHANGED << slotVars, patients, rateLimitMap, req, calls, userVars, uiVars, loop >>

NextRate == (\E ip \in IPs : RateLimitStep(ip)) \/ Tick

SpecRate == InitRate /\ [][NextRate]_vars

\* The calls of an IP that got past isRateLimited at or after call i and less than
\* an hour after it.
PassedWithinHourOf(i) ==
  { j \in DOMAIN calls :
      /\ calls[j].ip = calls[i].ip
      /\ calls[j].status # 429
      /\ calls[j].at >= calls[i].at
      /\ calls[j].at - calls[i].at < RATE_WINDOW }

\* C19 (as claimed): for each client IP, of the requests that arrive within any
\* span of one hour at most 5 get past isRateLimited; the others are answered 429.
C19_AtMostFivePerHour ==
  \A i \in DOMAIN calls : Cardinality(PassedWithinHourOf(i)) <= RATE_LIMIT

\* ------------------------------------------------------------ create-user
\* The edge function.  A request is served in steps, one per await; the steps of
\* different requests interleave.

\* The auth users and their roles when the requests arrive: a medico, an asistente
\* and a user without a role (app_role is ENUM ('medico', 'asistente')).
InitialUsers ==
  << [ id |-> 1, email |-> "m@x" ], [ id |-> 2, email |-> "s@x" ], [ id |-> 3, email |-> "n@x" ] >>

InitialRoles ==
  << [ user_id |-> 1, role |-> "medico" ], [ user_id |-> 2, role |-> "asistente" ] >>

\* Values of the Authorization header: absent, a token auth.getUser() resolves to no
\* user, and the tokens of the three users.
NoHeader == "none"

AuthHeaders == { NoHeader, "bad", "token1", "token2", "token3" }

\* The user auth.getUser() resolves the header to; 0 stands for authError or no user.
getUser(authHeader) ==
  IF authHeader = "token1" THEN 1
  ELSE IF authHeader = "token2" THEN 2
  ELSE IF authHeader = "token3" THEN 3
  ELSE 0

\* .from("user_roles").select("role").eq("user_id", caller.id)
callerRoles(table, callerId) ==
  { table[i].role : i \in { j \in DOMAIN table : table[j].user_id = callerId } }

\* Mutant of hasAdminAccess: any role gives access.
hasAnyRole(roles) == roles # { }

\* callerRoles?.some((r) => r.role === "admin" || r.role === "medico")
hasAdminAccess(roles) == \E role \in roles : role = "admin" \/ role = "medico"

\* A request body; emailValid stands for the test against emailRegex.
UserBody(email, emailValid, passwordLength, role) ==
  [ email |-> email, emailValid |-> emailValid, passwordLength |-> passwordLength,
    role |-> role ]

NoUserBody == UserBody("", FALSE, 0, "")

\* One of the 400 answers of the field validation applies.
userValidationError(body) ==
  \/ body.email = "" \/ body.passwordLength = 0 \/ body.role = ""
  \/ ~body.emailValid
  \/ body.passwordLength < 8
  \/ body.role \notin { "admin", "medico", "asistente" }

\* auth.admin.createUser fails: the email is registered already.
createError(users, email) == \E i \in DOMAIN users : users[i].email = email

\* The user_roles insert fails: the role is not a value of app_role.
roleError(role) == role \notin { "medico", "asistente" }

\* Request bodies: a new medico, a new asistente with the same email, a new admin,
\* the email of an existing user, a short password, and a role outside validRoles.
UserBodies ==
  { UserBody("new@x", TRUE, 8, "medico"),
    UserBody("new@x", TRUE, 12, "asistente"),
    UserBody("adm@x", TRUE, 8, "admin"),
    UserBody("m@x", TRUE, 8, "asistente"),
    UserBody("new@x", TRUE, 7, "medico"),
    UserBody("new@x", TRUE, 8, "root") }

NewUserRequest == [ pc |-> "new", method |-> "", auth |-> NoHeader, caller |-> 0,
                    body |-> NoUserBody, newUser |-> 0, status |-> 0 ]

\* The id auth.admin.createUser gives the user of request r.
NewUserId(r) == 10 + r

InitUsers ==
  /\ schedules = << >>
  /\ appointments = << >>
  /\ schedule_blocks = << >>
  /\ doctorId = ""
  /\ date = 0
  /\ duration = 0
  /\ now = 0
  /\ pc = "idle"
  /\ qSchedules = << >>
  /\ qAppointments = << >>
  /\ qBlocks = << >>
  /\ allSlots = << >>
  /\ result = << >>
  /\ thrown = "none"
  /\ loop = << >>
  /\ patients = << >>
  /\ rateLimitMap = << >>
  /\ dateNow = 0
  /\ req = << >>
  /\ calls = << >>
  /\ authUsers = InitialUsers
  /\ user_roles = InitialRoles
  /\ ureq = [ r \in Requests |-> NewUserRequest ]
  /\ authState = << >>
  /\ authPending = << >>
  /\ booking = << >>
  /\ inflight = << >>

notUserVars == << slotVars, bookVars, calls, uiVars, loop >>

UserRespond(r, code) == ureq' = [ ureq EXCEPT ![r].pc = "done", ![r].status = code ]

\* A request arrives (requests are numbered in their order of arrival): the CORS
\* preflight is answered at once, another method than POST gets 405, a missing
\* Authorization header 401; otherwise the function awaits auth.getUser().
UserReceive(r) ==
  /\ ureq[r].pc = "new"
  /\ IF r = 1 THEN TRUE ELSE ureq[r - 1].pc # "new"
  /\ \E method \in { "OPTIONS", "GET", "POST" }, authHeader \in AuthHeaders :
       ureq' = [ ureq EXCEPT ![r] =
                   IF method = "OPTIONS"
                   THEN [ NewUserRequest EXCEPT !.pc = "done", !.method = method, !.status = 200 ]
                   ELSE IF method # "POST"
                   THEN [ NewUserRequest EXCEPT !.pc = "done", !.method = method, !.status = 405 ]
                   ELSE IF authHeader = NoHeader
                   THEN [ NewUserRequest EXCEPT !.pc = "done", !.method = method, !.status = 401 ]
                   ELSE [ NewUserRequest EXCEPT !.pc = "getUser", !.method = method,
                                                !.auth = authHeader ] ]
  /\ UNCHANGED << notUserVars, authUsers, user_roles >>

\* auth.getUser() returns.
UserGetCaller(r) ==
  /\ ureq[r].pc = "getUser"
  /\ IF getUser(ureq[r].auth) = 0
     THEN UserRespond(r, 401)
     ELSE ureq' = [ ureq EXCEPT ![r].pc = "roles", ![r].caller = getUser(ureq[r].auth) ]
  /\ UNCHANGED << notUserVars, authUsers, user_roles >>

\* The user_roles query for the caller returns.
UserCallerRoles(r) ==
  /\ ureq[r].pc = "roles"
  /\ IF hasAdminAccess(callerRoles(user_roles, ureq[r].caller))
     THEN ureq' = [ ureq EXCEPT ![r].pc = "json" ]
     ELSE UserRespond(r, 403)
  /\ UNCHANGED << notUserVars, authUsers, user_roles >>

\* The body is parsed and validated.
UserValidate(r) ==
  /\ ureq[r].pc = "json"
  /\ \E body \in UserBodies :
       ureq' = IF userValidationError(body)
               THEN [ ureq EXCEPT ![r].pc = "done", ![r].body = body, ![r].status = 400 ]
               ELSE [ ureq EXCEPT ![r].pc = "createUser", ![r].body = body ]
  /\ UNCHANGED << notUserVars, authUsers, user_roles >>

\* auth.admin.createUser returns.
UserCreate(r) ==
  /\ ureq[r].pc = "createUser"
  /\ IF createError(authUsers, ureq[r].body.email)
     THEN /\ UserRespond(r, 400)
          /\ UNCHANGED authUsers
     ELSE /\ authUsers' = Append(authUsers, [ id |-> NewUserId(r), email |-> ureq[r].body.email ])
          /\ ureq' = [ ureq EXCEPT ![r].pc = "insertRole", ![r].newUser = NewUserId(r) ]
  /\ UNCHANGED << notUserVars, user_roles >>

\* The user_roles insert returns.
UserInsertRole(r) ==
  /\ ureq[r].pc = "insertRole"
  /\ IF roleError(ureq[r].body.role)
     THEN /\ ureq' = [ ureq EXCEPT ![r].pc = "rollback" ]
          /\ UNCHANGED user_roles
     ELSE /\ user_roles' = Append(user_roles, [ user_id |-> ureq[r].newUser,
                                                role |-> ureq[r].body.role ])
          /\ UserRespond(r, 201)
  /\ UNCHANGED << notUserVars, authUsers >>

\* Mutant of UserRollback: the 500 is answered without deleting the user.
UserRollbackWithoutDelete(r) ==
  /\ ureq[r].pc = "rollback"
  /\ UserRespond(r, 500)
  /\ UNCHANGED << notUserVars, authUsers, user_roles >>

\* "Rollback: delete the created user" returns; its user_roles rows go with it
\* (ON DELETE CASCADE).
UserRollback(r) ==
  /\ ureq[r].pc = "rollback"
  /\ authUsers' = SelectSeq(authUsers, LAMBDA u : u.id # ureq[r].newUser)
  /\ user_roles' = SelectSeq(user_roles, LAMBDA row : row.user_id # ureq[r].newUser)
  /\ UserRespond(r, 500)
  /\ UNCHANGED notUserVars

NextUsers ==
  \E r \in Requests :
    \/ UserReceive(r)
    \/ UserGetCaller(r)
    \/ UserCallerRoles(r)
    \/ UserValidate(r)
    \/ UserCreate(r)
    \/ UserInsertRole(r)
    \/ UserRollback(r)

SpecUsers == InitUsers /\ [][NextUsers]_vars

\* The user the Authorization header of request r belongs to holds admin or medico.
AuthorizedCaller(r) ==
  /\ ureq[r].auth \in { "token1", "token2", "token3" }
  /\ \E i \in DOMAIN user_roles :
       /\ user_roles[i].user_id = getUser(ureq[r].auth)
       /\ user_roles[i].role \in { "admin", "medico" }

\* The users and role rows that create-user requests added.
CreatedUsers == { i \in DOMAIN authUsers : authUsers[i].id > Len(InitialUsers) }

CreatedRoles == { i \in DOMAIN user_roles : user_roles[i].user_id > Len(InitialUsers) }

\* C20: every auth user and every user_roles row the function created belongs to a
\* request whose Authorization header resolves to a user holding admin or medico;
\* a POST without the header or with one that resolves to no user is answered 401,
\* a POST of a caller without those roles 403, and neither creates anything.
C20_OnlyAdminOrMedicoCreates ==
  /\ \A i \in CreatedUsers :
       \E r \in Requests : ureq[r].newUser = authUsers[i].id /\ AuthorizedCaller(r)
  /\ \A i \in CreatedRoles :
       \E r \in Requests : ureq[r].newUser = user_roles[i].user_id /\ AuthorizedCaller(r)
  /\ \A r \in Requests :
       (ureq[r].method = "POST" /\ ~AuthorizedCaller(r)) =>
         /\ ureq[r].newUser = 0
         /\ ureq[r].pc \in { "done", "getUser", "roles" }
         /\ ureq[r].pc = "done" =>
              ureq[r].status = IF getUser(ureq[r].auth) = 0 THEN 401 ELSE 403

\* C20 witness: a medico's request created a user with its role row and was answered
\* 201, while another request that carried a header was answered 401 or 403.
C20_Witness ==
  /\ \E r \in Requests :
       /\ ureq[r].status = 201
       /\ ureq[r].auth = "token1"
       /\ \E i \in CreatedUsers : authUsers[i].id = ureq[r].newUser
       /\ \E i \in CreatedRoles : user_roles[i].user_id = ureq[r].newUser
  /\ \E r \in Requests : ureq[r].status \in { 401, 403 } /\ ureq[r].auth # NoHeader


\* ----------------------- create-appointment requests served one at a time

\* No request other than r is between its arrival and its response.
NoOtherInFlight(r) == \A q \in Requests \ { r } : req[q].pc \in { "new", "done" }

\* A step of the one request in flight.
NextSequential ==
  \E r \in Requests :
    \/ NoOtherInFlight(r) /\ Receive(r)
    \/ NoOtherInFlight(r) /\ Validate(r)
    \/ NoOtherInFlight(r) /\ CheckDuplicate(r)
    \/ NoOtherInFlight(r) /\ FindPatientByEmail(r)
    \/ NoOtherInFlight(r) /\ FindPatientByPhone(r)
    \/ NoOtherInFlight(r) /\ InsertPatient(r)
    \/ NoOtherInFlight(r) /\ InsertAppointment(r)

SpecSequential == InitBooking /\ [][NextSequential]_vars

\* Rows i and j are non-cancelled rows of one doctor and date whose intervals
\* [start_time, end_time) overlap.
RowsOverlap(i, j) ==
  /\ appointments[i].doctor_id = appointments[j].doctor_id
  /\ appointments[i].appointment_date = appointments[j].appointment_date
  /\ appointments[i].status # "cancelada"
  /\ appointments[j].status # "cancelada"
  /\ TimeMinutes(appointments[i].start_time) < TimeMinutes(appointments[j].end_time)
  /\ TimeMinutes(appointments[j].start_time) < TimeMinutes(appointments[i].end_time)

\* C21 (as claimed): after requests served one after another, no two non-cancelled
\* appointments of a doctor and date overlap, whether or not their start times are
\* equal.
C21_NoOverlappingAppointments ==
  \A i, j \in DOMAIN appointments : i # j => ~RowsOverlap(i, j)

\* ------------------------------- appointments page: staff status updates

\* updateStatus.mutate({ id, status }) from the row's dropdown: the menu offers
\* Confirmar, Marcar completada and Cancelar for every row, whatever its status.
updateStatus(i, status) ==
  /\ \A q \in Requests : req[q].pc \in { "new", "done" }
  /\ appointments[i].status # status
  /\ appointments' = [ appointments EXCEPT ![i].status = status ]
  /\ UNCHANGED << slotState, patients, rateLimitMap, dateNow, req >>

NextStaff ==
  \/ NextSequential
  \/ \E i \in DOMAIN appointments, status \in { "confirmada", "completada", "cancelada" } :
       updateStatus(i, status)

SpecStaff == InitBooking /\ [][NextStaff]_vars

\* C22 (as claimed): after any sequential mix of requests and staff status updates
\* no two non-cancelled appointments have the same doctor, date and start time.
C22_NoTwoActiveRowsPerSlot ==
  \A i, j \in DOMAIN appointments :
    (i # j /\ appointments[i].status # "cancelada" /\ appointments[j].status # "cancelada")
      => ~( /\ appointments[i].doctor_id = appointments[j].doctor_id
            /\ appointments[i].appointment_date = appointments[j].appointment_date
            /\ appointments[i].start_time = appointments[j].start_time )


\* ------------------------------------------------- create-user: rollback

UserExists(id) == \E i \in DOMAIN authUsers : authUsers[i].id = id

RoleRowExists(id) == \E i \in DOMAIN user_roles : user_roles[i].user_id = id

\* C23: when a create-user request has finished, the auth user it created exists
\* only together with its user_roles row: after a failed role insert (answer 500)
\* the user is gone, and after 201 the user and its row both exist.
C23_NoUserWithoutRole ==
  \A r \in Requests :
    (ureq[r].pc = "done" /\ ureq[r].newUser # 0) =>
      /\ UserExists(ureq[r].newUser) => RoleRowExists(ureq[r].newUser)
      /\ ureq[r].status = 500 => ~UserExists(ureq[r].newUser)
      /\ ureq[r].status = 201 => UserExists(ureq[r].newUser)

\* C23 witness: a request whose role insert failed was answered 500 and its user is
\* gone, while the user of a request answered 201 exists with its row.
C23_Witness ==
  /\ \E r \in Requests :
       ureq[r].pc = "done" /\ ureq[r].status = 500 /\ ureq[r].newUser # 0
         /\ ~UserExists(ureq[r].newUser)
  /\ \E r \in Requests :
       ureq[r].status = 201 /\ UserExists(ureq[r].newUser) /\ RoleRowExists(ureq[r].newUser)


\* ------------------------------ create-appointment: what a request leaves

\* C24 (as claimed): a request answered with another status than 201 leaves the
\* appointments and patients tables as they were: with the requests served one
\* after another and none in flight, every row of either table was written by a
\* request answered 201.
C24_RejectedRequestLeavesTables ==
  (\A q \in Requests : req[q].pc \in { "new", "done" }) =>
    /\ \A i \in DOMAIN patients : \E r \in Created : req[r].patientId = patients[i].id
    /\ \A i \in DOMAIN appointments : \E r \in Created : RowOf(i, r)


\* ---------------------------------------------------------------- useAuth
\* The hook's state, the onAuthStateChange callback and the fetch of profile and
\* roles it defers with setTimeout.

\* The tables and the state of the edge functions, at rest while a page is used.
BackendAtRest ==
  /\ schedules = << >>
  /\ appointments = << >>
  /\ schedule_blocks = << >>
  /\ doctorId = ""
  /\ date = 0
  /\ duration = 0
  /\ now = 0
  /\ pc = "idle"
  /\ qSchedules = << >>
  /\ qAppointments = << >>
  /\ qBlocks = << >>
  /\ allSlots = << >>
  /\ result = << >>
  /\ thrown = "none"
  /\ loop = << >>
  /\ patients = << >>
  /\ rateLimitMap = << >>
  /\ dateNow = 0
  /\ req = << >>
  /\ calls = << >>
  /\ ureq = << >>

\* profile: null
NoProfile == [ user_id |-> 0 ]

\* The profiles row of a user (one per auth user, made by the trigger on auth.users).
ProfileOf(id) == [ user_id |-> id ]

InitAuth ==
  /\ BackendAtRest
  /\ authUsers = InitialUsers
  /\ user_roles = InitialRoles
  /\ authState = [ user |-> 0, profile |-> NoProfile, roles |-> { }, loading |-> TRUE,
                   isAuthenticated |-> FALSE ]
  /\ authPending = [ fetches |-> << >>, getSession |-> "pending" ]
  /\ booking = << >>
  /\ inflight = << >>

notAuthVars == << slotVars, bookVars, calls, userVars, booking, inflight, loop >>

\* The onAuthStateChange callback runs for an event with the given session user: it
\* sets user and isAuthenticated, and either defers the fetch for that user or
\* clears profile and roles.
onAuthStateChange(sessionUser) ==
  /\ Len(authPending.fetches) < MaxAuthEvents
  /\ authState' =
       IF sessionUser # 0
       THEN [ authState EXCEPT !.user = sessionUser, !.isAuthenticated = TRUE ]
       ELSE [ authState EXCEPT !.user = 0, !.isAuthenticated = FALSE,
                               !.profile = NoProfile, !.roles = { }, !.loading = FALSE ]
  /\ authPending' =
       [ authPending EXCEPT !.fetches =
           Append(@, [ user |-> sessionUser,
                       stage |-> IF sessionUser # 0 THEN "timer" ELSE "none" ]) ]
  /\ UNCHANGED notAuthVars

\* The setTimeout callback of event i starts: the two queries for session.user.id
\* are sent.  Timers run in the order they were set.
DeferredFetchStarts(i) ==
  /\ authPending.fetches[i].stage = "timer"
  /\ \A j \in 1..(i - 1) : authPending.fetches[j].stage # "timer"
  /\ authPending' = [ authPending EXCEPT !.fetches[i].stage = "await" ]
  /\ UNCHANGED << notAuthVars, authState >>

\* Promise.all of event i resolves: profile and roles are written into the state.
DeferredFetchReturns(i) ==
  /\ authPending.fetches[i].stage = "await"
  /\ authState' = [ authState EXCEPT
                      !.profile = ProfileOf(authPending.fetches[i].user),
                      !.roles = callerRoles(user_roles, authPending.fetches[i].user),
                      !.loading = FALSE ]
  /\ authPending' = [ authPending EXCEPT !.fetches[i].stage = "done" ]
  /\ UNCHANGED notAuthVars

\* getSession() resolves: without a session loading is set to false.
getSessionThen ==
  /\ authPending.getSession = "pending"
  /\ \E session \in BOOLEAN :
       authState' = IF session THEN authState ELSE [ authState EXCEPT !.loading = FALSE ]
  /\ authPending' = [ authPending EXCEPT !.getSession = "done" ]
  /\ UNCHANGED notAuthVars

\* session?.user of an event is 0 for no session, or the id of one of the users.
NextAuth ==
  \/ \E sessionUser \in { 0, 1, 2 } : onAuthStateChange(sessionUser)
  \/ \E i \in DOMAIN authPending.fetches : DeferredFetchStarts(i)
  \/ \E i \in DOMAIN authPending.fetches : DeferredFetchReturns(i)
  \/ getSessionThen

SpecAuth == InitAuth /\ [][NextAuth]_vars

\* The roles the user_roles table holds for the user in the state.
RolesHeld ==
  { user_roles[i].role : i \in { j \in DOMAIN user_roles :
                                   user_roles[j].user_id = authState.user } }

\* C25 (as claimed): in every state of useAuth, isAuthenticated = false implies
\* roles = [] and profile = null, and with a user signed in the roles and the
\* profile in the state are none yet or those of that user.
C25_AuthStateMatchesSession ==
  /\ ~authState.isAuthenticated =>
       (authState.roles = { } /\ authState.profile = NoProfile)
  /\ authState.isAuthenticated =>
       /\ authState.roles \in { { }, RolesHeld }
       /\ authState.profile \in { NoProfile, [ user_id |-> authState.user ] }


\* ----------------------------------------------------------- Booking page
\* The four-step wizard of the public booking page: the component's state and the
\* handlers of its buttons, inputs and awaited responses.

\* selectedTime: ""
NoTime == << >>

\* foundPatient: null
NoPatient == 0

\* The values a text field takes in the model: empty, or a text the schema accepts.
FieldValues == { "", "ok" }

\* The values typed into the search box: empty, or an email or a phone number.
SearchQueries == { "", "q" }

\* The days offered by the Calendar: days 8 (Monday) and 9 (Tuesday) at midnight.
WizardDates == { startOfDay(8), startOfDay(9) }

\* The office of each of the active doctors listed in step 1.
OfficeOf(doctor) == IF doctor = "d1" THEN "o1" ELSE "o2"

\* The schedules the doctors have while the page is used.
WizardSchedules ==
  << Rule("d1", 1, Time(9, 0),  Time(10, 0), 30, TRUE),
     Rule("d2", 1, Time(10, 0), Time(11, 0), 60, TRUE) >>

\* formData with its required fields; notes, like appointmentType, is read by no
\* guard and is carried by the handlers the way reason is.
EmptyFormData ==
  [ patient_name |-> "", patient_email |-> "", patient_phone |-> "", reason |-> "" ]

\* No submit awaiting its response.
NoSubmit == [ doctor_id |-> NoDoctor, appointment_date |-> NoDate, start_time |-> NoTime,
              duration |-> 0 ]

InitWizard ==
  /\ schedules = WizardSchedules
  /\ appointments = << >>
  /\ schedule_blocks = << >>
  /\ doctorId = ""
  /\ date = 0
  /\ duration = 0
  /\ now = At(7, 12, 0)
  /\ pc = "idle"
  /\ qSchedules = << >>
  /\ qAppointments = << >>
  /\ qBlocks = << >>
  /\ allSlots = << >>
  /\ result = << >>
  /\ thrown = "none"
  /\ loop = << >>
  /\ patients = ExistingPatients
  /\ rateLimitMap = << >>
  /\ dateNow = 0
  /\ req = << >>
  /\ calls = << >>
  /\ authUsers = << >>
  /\ user_roles = << >>
  /\ ureq = << >>
  /\ authState = << >>
  /\ authPending = << >>
  /\ booking = [ step |-> 1, selectedDoctor |-> NoDoctor, selectedOffice |-> "",
                 selectedDate |-> NoDate, selectedTime |-> NoTime, duration |-> 30,
                 patientType |-> "new", searchQuery |-> "", searchingPatient |-> FALSE,
                 foundPatient |-> NoPatient, formData |-> EmptyFormData,
                 submitting |-> FALSE, submitted |-> FALSE ]
  /\ inflight = [ searches |-> << >>, submit |-> NoSubmit, okResponse |-> FALSE ]

notWizardVars == << slotVars, bookVars, calls, userVars, authState, authPending, loop >>

\* availableSlots: the data of useAvailableSlots for the given doctor, date and
\* duration, [] while the query is disabled.
SlotsFor(doctor, d, dur) ==
  IF ArgumentsMissing(doctor, d)
  THEN << >>
  ELSE ComputeSlots(SchedulesQuery(schedules, doctor, getDay(d)),
                    AppointmentsQuery(appointments, doctor, formatDate(d)),
                    BlocksQuery(schedule_blocks, doctor, d), d, dur, now)

availableSlots == SlotsFor(booking.selectedDoctor, booking.selectedDate, booking.duration)

\* The wizard is rendered (the success screen replaces it once submitted) at a step.
AtStep(n) == ~booking.submitted /\ booking.step = n

\* Step 1: a doctor card is clicked.
SelectDoctor(doctor) ==
  /\ AtStep(1)
  /\ booking.selectedDoctor # doctor
  /\ booking' = [ booking EXCEPT !.selectedDoctor = doctor,
                                 !.selectedOffice = OfficeOf(doctor) ]
  /\ UNCHANGED << notWizardVars, inflight >>

\* Step 1: Continuar, disabled without a doctor.
ContinueFromDoctor ==
  /\ AtStep(1)
  /\ booking.selectedDoctor # NoDoctor
  /\ booking' = [ booking EXCEPT !.step = 2 ]
  /\ UNCHANGED << notWizardVars, inflight >>

\* Step 2: Calendar onSelect with another day, or with undefined when the selected
\* day is clicked again.
SelectDate(d) ==
  /\ AtStep(2)
  /\ booking.selectedDate # d
  /\ booking' = [ booking EXCEPT !.selectedDate = d, !.selectedTime = NoTime ]
  /\ UNCHANGED << notWizardVars, inflight >>

\* Step 2: the duration Select changes.
SelectDuration(dur) ==
  /\ AtStep(2)
  /\ booking.duration # dur
  /\ booking' = [ booking EXCEPT !.duration = dur ]
  /\ UNCHANGED << notWizardVars, inflight >>

\* Step 2: one of the buttons of availableSlots is clicked.
SelectTime(time) ==
  /\ AtStep(2)
  /\ booking.selectedDate # NoDate
  /\ booking.selectedTime # time
  /\ booking' = [ booking EXCEPT !.selectedTime = time ]
  /\ UNCHANGED << notWizardVars, inflight >>

\* Steps 2, 3 and 4: Atras.
Back ==
  /\ ~booking.submitted
  /\ booking.step \in { 2, 3, 4 }
  /\ booking' = [ booking EXCEPT !.step = @ - 1 ]
  /\ UNCHANGED << notWizardVars, inflight >>

\* Step 2: Continuar, disabled without a date or without a time.
ContinueFromDateTime ==
  /\ AtStep(2)
  /\ booking.selectedDate # NoDate
  /\ booking.selectedTime # NoTime
  /\ booking' = [ booking EXCEPT !.step = 3 ]
  /\ UNCHANGED << notWizardVars, inflight >>

handlePatientTypeChange(type) ==
  /\ AtStep(3)
  /\ booking' = [ booking EXCEPT
                    !.patientType = type,
                    !.searchQuery = "",
                    !.foundPatient = NoPatient,
                    !.formData = [ EmptyFormData EXCEPT !.reason = booking.formData.reason ] ]
  /\ booking' # booking
  /\ UNCHANGED << notWizardVars, inflight >>

\* Step 3: the search box is edited.
EditSearchQuery(q) ==
  /\ AtStep(3)
  /\ booking.patientType = "existing"
  /\ booking.searchQuery # q
  /\ booking' = [ booking EXCEPT !.searchQuery = q ]
  /\ UNCHANGED << notWizardVars, inflight >>

\* handleSearchPatient up to its await, from the Buscar button or the Enter key; the
\* closure holds the formData of the render it was made in.
handleSearchPatient ==
  /\ AtStep(3)
  /\ booking.patientType = "existing"
  /\ booking.searchQuery # ""
  /\ Len(inflight.searches) < MaxSearches
  /\ booking' = [ booking EXCEPT !.searchingPatient = TRUE, !.foundPatient = NoPatient ]
  /\ inflight' = [ inflight EXCEPT !.searches =
                     Append(@, [ reason |-> booking.formData.reason ]) ]
  /\ UNCHANGED notWizardVars

\* handleSearchPatient after its await: the query of search i is answered with an
\* error, no row, or the row of a patient.
SearchReturns(i, outcome) ==
  /\ i \in DOMAIN inflight.searches
  /\ booking' =
       IF outcome = "data"
       THEN [ booking EXCEPT
                !.foundPatient = patients[1].id,
                !.formData = [ patient_name |-> "ok", patient_email |-> "ok",
                               patient_phone |-> "ok",
                               reason |-> inflight.searches[i].reason ],
                !.searchingPatient = FALSE ]
       ELSE [ booking EXCEPT !.searchingPatient = FALSE ]
  /\ inflight' = [ inflight EXCEPT !.searches = SubSeq(@, 1, i - 1) \o SubSeq(@, i + 1, Len(@)) ]
  /\ UNCHANGED notWizardVars

\* Step 3: one of the inputs shown for a new patient or a found one is edited; name,
\* phone and email are disabled for a found existing patient.
EditField(field, value) ==
  /\ AtStep(3)
  /\ booking.patientType = "new" \/ booking.foundPatient # NoPatient
  /\ field \in { "patient_name", "patient_phone", "patient_email" } =>
       ~(booking.patientType = "existing" /\ booking.foundPatient # NoPatient)
  /\ booking.formData[field] # value
  /\ booking' = [ booking EXCEPT !.formData[field] = value ]
  /\ UNCHANGED << notWizardVars, inflight >>

\* Step 3: Revisar Cita, disabled while a required field is empty or an existing
\* patient was not found.
ReviewAppointment ==
  /\ AtStep(3)
  /\ booking.formData.patient_name # ""
  /\ booking.formData.patient_email # ""
  /\ booking.formData.patient_phone # ""
  /\ booking.formData.reason # ""
  /\ ~(booking.patientType = "existing" /\ booking.foundPatient = NoPatient)
  /\ booking' = [ booking EXCEPT !.step = 4 ]
  /\ UNCHANGED << notWizardVars, inflight >>

\* validateForm(bookingSchema, formData) succeeds.
FormIsValid(formData) ==
  /\ formData.patient_name = "ok"
  /\ formData.patient_email = "ok"
  /\ formData.patient_phone = "ok"
  /\ formData.reason = "ok"

\* handleSubmit up to its await: Confirmar Cita, disabled while submitting.
handleSubmit ==
  /\ AtStep(4)
  /\ ~booking.submitting
  /\ ~(booking.selectedDoctor = NoDoctor \/ booking.selectedDate = NoDate
         \/ booking.selectedTime = NoTime)
  /\ FormIsValid(booking.formData)
  /\ booking' = [ booking EXCEPT !.submitting = TRUE ]
  /\ inflight' = [ inflight EXCEPT
                     !.submit = [ doctor_id |-> booking.selectedDoctor,
                                  appointment_date |-> booking.selectedDate,
                                  start_time |-> booking.selectedTime,
                                  duration |-> booking.duration ] ]
  /\ UNCHANGED notWizardVars

\* handleSubmit after its await: the response is OK or not.
SubmitReturns(ok) ==
  /\ inflight.submit # NoSubmit
  /\ booking' = [ booking EXCEPT !.submitted = IF ok THEN TRUE ELSE @,
                                 !.submitting = FALSE ]
  /\ inflight' = [ inflight EXCEPT !.submit = NoSubmit,
                                   !.okResponse = IF ok THEN TRUE ELSE @ ]
  /\ UNCHANGED notWizardVars

NextWizard ==
  \/ \E doctor \in { "d1", "d2" } : SelectDoctor(doctor)
  \/ ContinueFromDoctor
  \/ \E d \in WizardDates \cup { NoDate } : SelectDate(d)
  \/ \E dur \in Durations : SelectDuration(dur)
  \/ \E time \in Range(availableSlots) : SelectTime(time)
  \/ Back
  \/ ContinueFromDateTime
  \/ \E type \in { "new", "existing" } : handlePatientTypeChange(type)
  \/ \E q \in SearchQueries : EditSearchQuery(q)
  \/ handleSearchPatient
  \/ \E i \in 1..MaxSearches, outcome \in { "error", "none", "data" } : SearchReturns(i, outcome)
  \/ \E field \in DOMAIN EmptyFormData, value \in FieldValues : EditField(field, value)
  \/ ReviewAppointment
  \/ handleSubmit
  \/ \E ok \in BOOLEAN : SubmitReturns(ok)

SpecWizard == InitWizard /\ [][NextWizard]_vars

\* C26 (as claimed): whenever selectedTime is non-empty it is one of the slots of the
\* selected doctor, date and duration, and the start_time handleSubmit sends is one
\* of the slots of the doctor, date and duration it sends.
C26_SelectedTimeIsAvailable ==
  /\ booking.selectedTime # NoTime => booking.selectedTime \in Range(availableSlots)
  /\ inflight.submit # NoSubmit =>
       inflight.submit.start_time \in
         Range(SlotsFor(inflight.submit.doctor_id, inflight.submit.appointment_date,
                        inflight.submit.duration))

\* C27 (as claimed): step = 4 implies a doctor, a date and a time are selected, the
\* four required fields are non-empty and an existing patient was found; submitted
\* is true only after a response with an OK status.
C27_ReviewStepHasAllData ==
  /\ booking.step = 4 =>
       /\ booking.selectedDoctor # NoDoctor
       /\ booking.selectedDate # NoDate
       /\ booking.selectedTime # NoTime
       /\ booking.formData.patient_name # ""
       /\ booking.formData.patient_email # ""
       /\ booking.formData.patient_phone # ""
       /\ booking.formData.reason # ""
       /\ booking.patientType = "existing" => booking.foundPatient # NoPatient
  /\ booking.submitted => inflight.okResponse


\* ------------------------------------------- create-appointment: quota order

\* The request r arrives in this step.
Arrives(r) == req[r].pc = "new" /\ req'[r].pc # "new"

\* The entry of ip counts one request more after the step: one more in the running
\* window, or the first of a new window.
CountedOnce(ip) ==
  /\ \A other \in IPs \ { ip } : rateLimitMap'[other] = rateLimitMap[other]
  /\ \/ /\ rateLimitMap'[ip].resetAt = rateLimitMap[ip].resetAt
        /\ rateLimitMap'[ip].count = rateLimitMap[ip].count + 1
        /\ rateLimitMap'[ip].count <= RATE_LIMIT
     \/ /\ rateLimitMap'[ip].resetAt = dateNow + RATE_WINDOW
        /\ rateLimitMap'[ip].count = 1

\* C28: a request other than OPTIONS meets the quota of its IP in the step it
\* arrives in, before its body is parsed: it is counted and goes on to req.json(), or
\* it is answered 429 with the limit reached, its body unread, and it is never
\* validated and writes nothing.  No later step of a request (400, 409, 201, 500)
\* changes the map, and an OPTIONS request leaves the map as it was.
C28_QuotaCountedBeforeParsing ==
  [][ \A r \in Requests :
        /\ Arrives(r) =>
             IF req'[r].method = "OPTIONS"
             THEN rateLimitMap' = rateLimitMap /\ req'[r].pc = "done" /\ req'[r].status = 200
             ELSE IF req'[r].status = 429
                  THEN /\ rateLimitMap[req'[r].ip].count >= RATE_LIMIT
                       /\ req'[r].pc = "done"
                       /\ req'[r].body = NoBody
                       /\ rateLimitMap' = rateLimitMap
                  ELSE /\ req'[r].pc = "json"
                       /\ CountedOnce(req'[r].ip)
        /\ (req[r].pc # "new" /\ req'[r] # req[r]) => rateLimitMap' = rateLimitMap
        /\ req[r].status = 429 => req'[r] = req[r]
        /\ (req'[r] # req[r] /\ req'[r].status = 429) =>
             (appointments' = appointments /\ patients' = patients)
    ]_vars

\* Two requests of one IP were served: one was rejected with 400 or 409 after it was
\* counted, and the other was answered 429.
C28_Witness ==
  \E r, q \in Requests :
    /\ req[r].pc = "done" /\ req[r].status \in { 400, 409 }
    /\ req[q].pc = "done" /\ req[q].status = 429
    /\ req[r].ip = req[q].ip
    /\ rateLimitMap[req[r].ip].count = RATE_LIMIT


\* ------------------------------------ useAvailableSlots: the candidate loop
\* The for-of over the schedule rows and its while loop, one iteration a step, for
\* the rows the schedules table can hold: start_time < end_time and any integer
\* slot_duration.

LoopRows ==
  { Rule("d1", 1, Time(9, 0), Time(10, 0),  30,  TRUE),
    Rule("d1", 1, Time(9, 0), Time(9, 40),  15,  TRUE),
    Rule("d1", 1, Time(9, 0), Time(10, 30), 45,  TRUE),
    Rule("d1", 1, Time(9, 0), Time(10, 0),  0,   TRUE),
    Rule("d1", 1, Time(9, 0), Time(10, 0),  -30, TRUE) }

\* "let currentSlot = startTime" for the schedule at position row, if there is one.
FirstSlot(rows, row, ref) ==
  IF row \in DOMAIN rows THEN parseHHmmss(rows[row].start_time, ref) ELSE 0

InitLoop ==
  /\ schedules = << >>
  /\ appointments = << >>
  /\ schedule_blocks = << >>
  /\ doctorId = "d1"
  /\ date = startOfDay(8)
  /\ duration \in { -30, 0, 30, 60 }
  /\ now = At(8, 8, 0)
  /\ pc = "loop"
  /\ qSchedules \in { << a >> : a \in LoopRows } \cup { << a, b >> : a, b \in LoopRows }
  /\ qAppointments = << >>
  /\ qBlocks = << >>
  /\ allSlots = << >>
  /\ result = << >>
  /\ thrown = "none"
  /\ loop = [ row |-> 1, currentSlot |-> FirstSlot(qSchedules, 1, now) ]
  /\ patients = << >>
  /\ rateLimitMap = << >>
  /\ dateNow = 0
  /\ req = << >>
  /\ calls = << >>
  /\ authUsers = << >>
  /\ user_roles = << >>
  /\ ureq = << >>
  /\ authState = << >>
  /\ authPending = << >>
  /\ booking = << >>
  /\ inflight = << >>

notLoopVars == << schedules, appointments, schedule_blocks, doctorId, date, duration, now,
                 qSchedules, qAppointments, qBlocks, result, thrown, bookVars, calls,
                 userVars, uiVars >>

\* The while condition for the schedule the loop is at.
LoopGoesOn ==
  LoopCondition(loop.currentSlot, parseHHmmss(qSchedules[loop.row].end_time, now), duration)

\* One iteration of the while loop: push, then step by slot_duration.
WhileIteration ==
  /\ pc = "loop"
  /\ LoopGoesOn
  /\ Len(allSlots) < MaxSlots
  /\ allSlots' = Append(allSlots, formatHHmm(loop.currentSlot))
  /\ loop' = [ loop EXCEPT !.currentSlot =
                 addMinutes(@, qSchedules[loop.row].slot_duration) ]
  /\ UNCHANGED << notLoopVars, pc >>

\* The while condition is false: the for-of goes to the next schedule, or ends.
WhileExit ==
  /\ pc = "loop"
  /\ ~LoopGoesOn
  /\ loop' = [ row |-> loop.row + 1,
               currentSlot |-> FirstSlot(qSchedules, loop.row + 1, now) ]
  /\ pc' = IF loop.row + 1 \in DOMAIN qSchedules THEN "loop" ELSE "generated"
  /\ UNCHANGED << notLoopVars, allSlots >>

NextLoop == WhileIteration \/ WhileExit

SpecLoop == InitLoop /\ [][NextLoop]_vars

\* C29 (as claimed): the candidate loop terminates for every rule and every
\* duration.  The while condition holds for a currentSlot whenever it holds for a
\* later one, so the loop of a rule ends exactly when every iteration moves
\* currentSlot forward.
C29_EveryIterationAdvances ==
  [][ (pc = "loop" /\ allSlots' # allSlots) => loop'.currentSlot > loop.currentSlot ]_vars

====
